---- MODULE Spec2Model ----
(***************************************************************************)
(* A model of scanpy/ann_data.py: the AnnData container (a dense matrix X  *)
(* with a row table smp and a column table var, both BoundRecArr record    *)
(* arrays, a visualization dict vis and a dataset-metadata dict _meta).    *)
(*                                                                         *)
(* Python objects live in heaps indexed from 1:                            *)
(*   objs   the AnnData objects  [X, smp, var, vis, meta]                  *)
(*          (smp and var are indices into tabs, vis into visd, meta into   *)
(*          metad);                                                        *)
(*   tabs   the BoundRecArr objects [names, cols, name_col, parent]; a     *)
(*          table's index also stands for its dtype object, which          *)
(*          ndarray.copy() and views share with the table;                 *)
(*   bufs   the memory of the dense matrices; X is a view                  *)
(*          [buf, rix, cix, tr] of a buffer (basic slicing and .T give     *)
(*          views, indexing with a list copies);                           *)
(*   metad, visd  the dicts, as sets of <<key, value>> pairs.              *)
(* last is the latest operation and how it ended.  Two history variables:  *)
(* appended, the columns appended to the table of an axis since the axis   *)
(* was last assigned, and origin, the operation that made each object and  *)
(* the object it was made from.                                            *)
(*                                                                         *)
(* A numpy array is [dt, v]: dt is "i" (int64) or "U" (unicode), v the     *)
(* cells.  A cell of an "i" array is the integer itself.  A cell of a "U"  *)
(* array is the code of a string: 0..9 are the strings '0'..'9', 10, 11,   *)
(* 12 are 'A', 'B', 'C', and 13 is 'N/A' (the default fill of a string).   *)
(* The matrix is a dense ndarray; dataset-metadata keys are different from *)
(* the parameter names of AnnData.__init__.                                *)
(***************************************************************************)
EXTENDS Integers, Sequences, FiniteSets, TLC

VARIABLES objs, tabs, bufs, metad, visd, last, appended, origin, steps

vars == <<objs, tabs, bufs, metad, visd, last, appended, origin, steps>>

\* The number of operations of a run.
MaxSteps == 2

SMP_NAMES == "smp_names"
VAR_NAMES == "var_names"

----------------------------------------------------------------------------
(* Sequences and numpy arrays *)

InSeq(x, s) == \E i \in 1..Len(s) : s[i] = x

IndexOf(x, s) == CHOOSE i \in 1..Len(s) : s[i] = x

arange(n) == [dt |-> "i", v |-> [i \in 1..n |-> i - 1]]

IntArr(v) == [dt |-> "i", v |-> v]

StrArr(v) == [dt |-> "U", v |-> v]

\* The default fill value of numpy.ma for a cell of the dtype.
default_fill_value(dt) == IF dt = "i" THEN 999999 ELSE 13

\* Casting an array to the dtype of the destination, as an assignment does:
\* a string is parsed as an integer, an integer is printed as a string.
CanCast(arr, dt) == arr.dt = dt \/ dt = "U" \/ \A i \in 1..Len(arr.v) : arr.v[i] < 10

\* Broadcasting a 1-d array to length n.
CanBroadcast(arr, n) == Len(arr.v) = n \/ Len(arr.v) = 1

Broadcast(arr, n) == IF Len(arr.v) = n THEN arr.v ELSE [i \in 1..n |-> arr.v[1]]

\* dest[...] = arr, for a destination column of dtype dt and length n.
CanAssign(arr, dt, n) == CanBroadcast(arr, n) /\ CanCast(arr, dt)

Assigned(arr, dt, n) == [dt |-> dt, v |-> Broadcast(arr, n)]

----------------------------------------------------------------------------
(* BoundRecArr *)

Err(e) == [ok |-> FALSE, err |-> e]

NoSource == [kind |-> "none", names |-> <<>>, cols |-> <<>>]

MapSource(names, cols) == [kind |-> "map", names |-> names, cols |-> cols]

RecSource(names, cols) == [kind |-> "rec", names |-> names, cols |-> cols]

\* A table of the heap (or a row selection of it) as the source of a new one.
TableSource(t) == RecSource(t.names, t.cols)

SourceNames(source, name_col) ==
    IF source.kind = "none" THEN <<name_col>>
    ELSE IF source.kind = "map" /\ ~InSeq(name_col, source.names)
         THEN Append(source.names, name_col)
         ELSE source.names

SourceCols(source, name_col, nr_row) ==
    IF source.kind = "none" THEN <<arange(nr_row)>>
    ELSE IF source.kind = "map" /\ ~InSeq(name_col, source.names)
         THEN Append(source.cols, arange(Len(source.cols[1].v)))
         ELSE source.cols

\* BoundRecArr.__new__: [ok, err, tab].
BoundRecArr(source, name_col, parent, nr_row) ==
    IF source.kind \notin {"none", "rec", "map"} THEN Err("ValueError")
    ELSE IF source.kind = "map" /\ source.names = <<>> THEN Err("IndexError")
    ELSE LET names == SourceNames(source, name_col)
             cols == SourceCols(source, name_col, nr_row)
             n == Len(cols[1].v)
         IN IF \E i \in 1..Len(cols) : ~CanBroadcast(cols[i], n)
            THEN Err("ValueError")
            ELSE [ok |-> TRUE, err |-> "",
                  tab |-> [names |-> names,
                           cols |-> [i \in 1..Len(cols) |->
                                       Assigned(cols[i], cols[i].dt, n)],
                           name_col |-> name_col,
                           parent |-> parent]]

\* len(table)
TLen(t) == Len(t.cols[1].v)

HasCol(t, key) == InSeq(key, t.names)

Col(t, key) == t.cols[IndexOf(key, t.names)]

\* BoundRecArr.columns
columns(t) == SelectSeq(t.names, LAMBDA c : c # t.name_col)

----------------------------------------------------------------------------
(* The matrix: views of buffers, and the index components *)

\* X.shape
Shape(X) ==
    IF X.tr THEN <<Len(X.cix), Len(X.rix)>> ELSE <<Len(X.rix), Len(X.cix)>>

\* The cells of X, read from the memory B.
Cells(B, X) ==
    [i \in 1..Shape(X)[1] |-> [j \in 1..Shape(X)[2] |->
        IF X.tr THEN B[X.buf][X.rix[j]][X.cix[i]]
                ELSE B[X.buf][X.rix[i]][X.cix[j]]]]

\* X[rows, cols] for two basic (slice) components: a view on the same buffer.
SubView(X, R, C) ==
    IF X.tr
    THEN [X EXCEPT !.cix = [k \in 1..Len(R) |-> X.cix[R[k]]],
                   !.rix = [k \in 1..Len(C) |-> X.rix[C[k]]]]
    ELSE [X EXCEPT !.rix = [k \in 1..Len(R) |-> X.rix[R[k]]],
                   !.cix = [k \in 1..Len(C) |-> X.cix[C[k]]]]

\* A matrix that owns a whole buffer b of shape (n, m).
Whole(b, n, m) ==
    [buf |-> b, rix |-> [i \in 1..n |-> i], cix |-> [j \in 1..m |-> j],
     tr |-> FALSE]

\* X.T
Transposed(X) == [X EXCEPT !.tr = ~X.tr]

\* An index component: all (omitted, or a bare colon), an integer, a slice
\* a:b, or a list of positions.
AllSel == [k |-> "all", a |-> 0, b |-> 0, l |-> <<>>]

IntSel(i) == [k |-> "int", a |-> i, b |-> 0, l |-> <<>>]

SliceSel(a, b) == [k |-> "slice", a |-> a, b |-> b, l |-> <<>>]

ListSel(l) == [k |-> "list", a |-> 0, b |-> 0, l |-> l]

\* AnnData._unpack_index, for one component.
unpack_index(sel) == IF sel.k = "int" THEN SliceSel(sel.a, sel.a + 1) ELSE sel

\* slice.indices: a bound of a slice on an axis of length n.
Clamp(x, n) ==
    IF x < 0 THEN (IF x + n < 0 THEN 0 ELSE x + n) ELSE (IF x > n THEN n ELSE x)

\* Whether numpy accepts the component on an axis of length n.
SelOK(sel, n) ==
    sel.k = "list" => \A i \in 1..Len(sel.l) : sel.l[i] >= -n /\ sel.l[i] < n

\* The positions (from 1) that a slice or a list selects on an axis of length n.
Positions(sel, n) ==
    IF sel.k = "all" THEN [i \in 1..n |-> i]
    ELSE IF sel.k = "slice"
    THEN LET lo == Clamp(sel.a, n)
             hi == Clamp(sel.b, n)
         IN [i \in 1..(IF hi > lo THEN hi - lo ELSE 0) |-> lo + i]
    ELSE [i \in 1..Len(sel.l) |->
            IF sel.l[i] < 0 THEN sel.l[i] + n + 1 ELSE sel.l[i] + 1]

\* table[rows]: the rows of a record array, its dtype unchanged.
TakeRows(t, P) ==
    [t EXCEPT !.cols = [i \in 1..Len(t.cols) |->
        [dt |-> t.cols[i].dt, v |-> [k \in 1..Len(P) |-> t.cols[i].v[P[k]]]]]]

----------------------------------------------------------------------------
(* AnnData *)

_check_dimensions(shape, smp, var) ==
    IF TLen(smp) # shape[1] THEN Err("ValueError")
    ELSE IF TLen(var) # shape[2] THEN Err("ValueError")
    ELSE [ok |-> TRUE, err |-> ""]

\* AnnData.__init__ up to _check_dimensions, for a 2-d dense X and no ddata:
\* [ok, err, smp, var].  self is the index the new object gets.
init(self, shape, smp, var) ==
    LET s == BoundRecArr(smp, SMP_NAMES, self, shape[1])
    IN IF ~s.ok THEN s
       ELSE LET v == BoundRecArr(var, VAR_NAMES, self, shape[2])
            IN IF ~v.ok THEN v
               ELSE LET c == _check_dimensions(shape, s.tab, v.tab)
                    IN IF ~c.ok THEN c
                       ELSE [ok |-> TRUE, err |-> "", smp |-> s.tab, var |-> v.tab]

\* The vis argument: the index of a dict of the heap (0: a dict of the caller's)
\* and its entries.
VisArg(id, val) == [id |-> id, val |-> val]

\* self.vis = vis or {}: an empty vis is replaced by a new empty dict.
KeepsVis(vis) == vis.val # {} /\ vis.id # 0

\* The **meta argument: the index of the dict that is unpacked (0: keyword
\* arguments written out by the caller) and its entries.
MetaArg(id, val) == [id |-> id, val |-> val]

\* A variant of StoredMeta in which __init__ stores the dict that was
\* unpacked, as if self._meta had been passed on by reference.
StoredMetaShared(M, meta) == IF meta.id # 0 THEN meta.id ELSE Len(M) + 1

\* self._meta = meta: the index of the dict that __init__ stores.  The call
\* AnnData(..., **self._meta) builds the dict meta anew from the entries.
StoredMeta(M, meta) == Len(M) + 1

\* The heaps once __init__ has returned: the new object, its two tables, its
\* _meta (the dict that ** built from the keyword arguments) and its vis.
Heaps(O, T, M, V, X, r, vis, meta) ==
    [objs |-> Append(O, [X |-> X, smp |-> Len(T) + 1, var |-> Len(T) + 2,
                         vis |-> (IF KeepsVis(vis) THEN vis.id ELSE Len(V) + 1),
                         meta |-> StoredMeta(M, meta)]),
     tabs |-> T \o <<r.smp, r.var>>,
     metad |-> Append(M, meta.val),
     visd |-> IF KeepsVis(vis) THEN V ELSE Append(V, vis.val)]

\* What last records of an operation.
Done(op, c, res, arg) ==
    [op |-> op, ok |-> TRUE, err |-> "", c |-> c, res |-> res, arg |-> arg]

Failed(op, e, c, arg) ==
    [op |-> op, ok |-> FALSE, err |-> e, c |-> c, res |-> 0, arg |-> arg]

----------------------------------------------------------------------------
(* The inputs *)

\* The matrix of the tests: 2 samples, 3 variables.
TestX == <<<<1, 2, 3>>, <<4, 5, 6>>>>

SmpInputs ==
    {NoSource,
     MapSource(<<SMP_NAMES>>, <<StrArr(<<10, 11>>)>>),
     MapSource(<<"a">>, <<IntArr(<<5, 6>>)>>)}

VarInputs ==
    {NoSource,
     MapSource(<<"b", VAR_NAMES>>, <<IntArr(<<7, 8, 9>>), StrArr(<<10, 11, 12>>)>>)}

\* vis and **meta, together.
VisMetaInputs ==
    {[vis |-> {}, meta |-> {}],
     [vis |-> {<<"a", "magma">>}, meta |-> {<<"k", 1>>}]}


\* n cells, the first one first.
Cells5(n) == [i \in 1..n |-> 4 + i]

Labels3(n) == [i \in 1..n |-> 2 + i]

LabelsA(n) == [i \in 1..n |-> 9 + i]

\* The values assigned to the table of an axis of length n.
AxisInputs(nc, n) ==
    {MapSource(<<"a">>, <<IntArr(Cells5(n))>>),
     MapSource(<<nc, "a">>, <<arange(n), IntArr(Cells5(n))>>),
     MapSource(<<nc>>, <<IntArr(Labels3(n))>>),
     MapSource(<<nc>>, <<StrArr(LabelsA(n))>>),
     MapSource(<<"a">>, <<IntArr(Cells5(n + 1))>>),
     RecSource(<<nc, "a">>, <<IntArr(Labels3(n)), IntArr(Cells5(n))>>),
     RecSource(<<nc, "a">>, <<IntArr(Labels3(n + 1)), IntArr(Cells5(n + 1))>>)}

\* The keys of the columns written through a table.
Keys == {"a", "c"}

\* The values written to a column of a table of length n.
ColumnInputs(n) ==
    {IntArr(Cells5(n)), IntArr(Cells5(n + 1))}
    \cup (IF n > 0 THEN {IntArr(Cells5(n - 1))} ELSE {})

\* The labels written to an axis of length n.
NamesInputs(n) == {IntArr(Labels3(n)), StrArr(LabelsA(n))}

\* The row and the column components of an index.
SelInputs ==
    {AllSel, IntSel(0), IntSel(-1), SliceSel(1, 3), ListSel(<<0>>), ListSel(<<1, 0>>)}

\* The indices of the cells that are written or deleted.
CellInputs ==
    {<<IntSel(0), AllSel>>, <<AllSel, ListSel(<<0>>)>>,
     <<ListSel(<<1, 0>>), ListSel(<<1, 0>>)>>}

DelInputs == {<<IntSel(0), AllSel>>, <<AllSel, IntSel(0)>>, <<AllSel, SliceSel(1, 3)>>}

MetaKeys == {"k"}

MetaValues == {1, 2}

----------------------------------------------------------------------------
(* The operations *)

\* After AnnData(X, smp, var, vis, **meta) on the test matrix.
Init ==
    \E smp \in SmpInputs, var \in VarInputs, vm \in VisMetaInputs :
        LET r == init(1, <<2, 3>>, smp, var)
            h == Heaps(<<>>, <<>>, <<>>, <<>>, Whole(1, 2, 3), r,
                       VisArg(0, vm.vis), MetaArg(0, vm.meta))
        IN /\ r.ok
           /\ objs = h.objs
           /\ tabs = h.tabs
           /\ metad = h.metad
           /\ visd = h.visd
           /\ bufs = <<TestX>>
           /\ last = Done("init", 0, 1, [smp |-> smp, var |-> var])
           /\ appended = {}
           /\ origin = <<[op |-> "init", from |-> 0]>>
           /\ steps = 0

\* AnnData(X, smp, var, vis, **meta)
Construct(smp, var, vm) ==
    LET self == Len(objs) + 1
        r == init(self, <<2, 3>>, smp, var)
        h == Heaps(objs, tabs, metad, visd, Whole(Len(bufs) + 1, 2, 3), r,
                   VisArg(0, vm.vis), MetaArg(0, vm.meta))
        arg == [smp |-> smp, var |-> var]
    IN /\ steps < MaxSteps
       /\ steps' = steps + 1
       /\ IF r.ok
          THEN /\ objs' = h.objs
               /\ tabs' = h.tabs
               /\ metad' = h.metad
               /\ visd' = h.visd
               /\ bufs' = Append(bufs, TestX)
               /\ origin' = Append(origin, [op |-> "init", from |-> 0])
               /\ last' = Done("init", 0, self, arg)
          ELSE /\ last' = Failed("init", r.err, 0, arg)
               /\ UNCHANGED <<objs, tabs, metad, visd, bufs, origin>>
       /\ UNCHANGED appended

\* The attribute of the parent that holds the table of a label column.
Attr(name_col) == IF name_col = SMP_NAMES THEN "smp" ELSE "var"

names_col(key) == IF key = "smp" THEN SMP_NAMES ELSE VAR_NAMES

dim(key) == IF key = "smp" THEN 1 ELSE 2

\* obj.smp or obj.var
Table(o, key) == IF key = "smp" THEN o.smp ELSE o.var

WithTable(o, key, t) == IF key = "smp" THEN [o EXCEPT !.smp = t] ELSE [o EXCEPT !.var = t]

\* The appends that a new table on the axis key of object c makes history.
Forget(c, key) == {e \in appended : ~(e.c = c /\ e.axis = key)}

\* AnnData.__setattr__ for key smp or var and a value that is no BoundRecArr:
\* [ok, err, tab].  The comparison of a unicode label column with np.arange
\* is no array, and its .all() an AttributeError.
wrap(c, key, value) ==
    LET cur == tabs[Table(objs[c], key)]
        nc == names_col(key)
        n == Shape(objs[c].X)[dim(key)]
    IN IF ~HasCol(cur, nc) THEN Err("ValueError")
       ELSE LET b == BoundRecArr(value, nc, c, 0)
            IN IF value.kind = "none" THEN Err("TypeError")
               ELSE IF ~b.ok THEN b
               ELSE IF TLen(b.tab) # n THEN Err("ValueError")
               ELSE IF ~HasCol(b.tab, nc) THEN Err("ValueError")
               ELSE IF Col(b.tab, nc).dt # "i" THEN Err("AttributeError")
               ELSE IF Col(b.tab, nc) # arange(n) THEN b
               ELSE IF ~CanAssign(Col(cur, nc), "i", n) THEN Err("ValueError")
               ELSE [b EXCEPT !.tab.cols[IndexOf(nc, b.tab.names)] =
                                  Assigned(Col(cur, nc), "i", n)]

\* obj.smp = value, obj.var = value, for a dict or a plain record array
SetAxis(c, key, value) ==
    LET w == wrap(c, key, value)
        arg == [key |-> key, value |-> value, t |-> 0]
    IN /\ steps < MaxSteps
       /\ steps' = steps + 1
       /\ IF w.ok
          THEN /\ tabs' = Append(tabs, w.tab)
               /\ objs' = [objs EXCEPT ![c] = WithTable(@, key, Len(tabs) + 1)]
               /\ appended' = Forget(c, key)
               /\ last' = Done("setattr", c, 0, arg)
          ELSE /\ last' = Failed("setattr", w.err, c, arg)
               /\ UNCHANGED <<objs, tabs, appended>>
       /\ UNCHANGED <<bufs, metad, visd, origin>>

\* obj.smp = table, obj.var = table, for a BoundRecArr (a table of the heap)
SetAxisBound(c, key, t) ==
    /\ steps < MaxSteps
    /\ steps' = steps + 1
    /\ objs' = [objs EXCEPT ![c] = WithTable(@, key, t)]
    /\ appended' = Forget(c, key)
    /\ last' = Done("setattr", c, 0,
                    [key |-> key, value |-> TableSource(tabs[t]), t |-> t])
    /\ UNCHANGED <<tabs, bufs, metad, visd, origin>>

\* bool(table._parent): AnnData has __len__ and no __bool__.
ParentIsTrue(t) == t.parent # 0 /\ Shape(objs[t.parent].X)[1] # 0

\* numpy.lib.recfunctions.append_fields(table, [key], [value], usemask=False):
\* a value shorter than the table is padded with the default fill value.
append_fields(t, key, value) ==
    RecSource(Append(t.names, key),
              Append(t.cols,
                     [dt |-> value.dt,
                      v |-> [i \in 1..TLen(t) |->
                               IF i <= Len(value.v) THEN value.v[i]
                               ELSE default_fill_value(value.dt)]]))

\* BoundRecArr.__setitem__ on the table h of the heap
setitem(op, c, h, key, value) ==
    LET self == tabs[h]
        arg == [t |-> h, key |-> key, value |-> value]
    IN /\ steps < MaxSteps
       /\ steps' = steps + 1
       /\ UNCHANGED <<bufs, metad, visd, origin>>
       /\ IF ParentIsTrue(self) /\ ~HasCol(self, key)
          THEN IF Len(value.v) > TLen(self)
               THEN /\ last' = Failed(op, "ValueError", c, arg)
                    /\ UNCHANGED <<objs, tabs, appended>>
               ELSE LET new == BoundRecArr(append_fields(self, key, value),
                                           self.name_col, self.parent, 0).tab
                        attr == Attr(self.name_col)
                    IN /\ tabs' = Append(tabs, new)
                       /\ objs' = [objs EXCEPT ![self.parent] =
                                      WithTable(@, attr, Len(tabs) + 1)]
                       /\ appended' =
                              {e \in appended : ~(e.c = self.parent /\ e.axis = attr
                                                   /\ e.key = key)}
                              \cup {[c |-> self.parent, axis |-> attr, key |-> key,
                                     col |-> Col(new, key)]}
                       /\ last' = Done(op, c, 0, arg)
          ELSE IF HasCol(self, key) /\ CanAssign(value, Col(self, key).dt, TLen(self))
               THEN /\ tabs' = [tabs EXCEPT ![h].cols[IndexOf(key, self.names)] =
                                   Assigned(value, @.dt, TLen(self))]
                    /\ appended' = {e \in appended :
                                      ~(Table(objs[e.c], e.axis) = h /\ e.key = key)}
                    /\ last' = Done(op, c, 0, arg)
                    /\ UNCHANGED objs
               ELSE /\ last' = Failed(op, "ValueError", c, arg)
                    /\ UNCHANGED <<objs, tabs, appended>>

\* table[key] = value, through any table ever read from an object
TableSetItem(h, key, value) == setitem("setitem", 0, h, key, value)

\* obj.smp_names = keys, obj.var_names = keys
SetNames(c, key, keys) ==
    setitem("setnames", c, Table(objs[c], key), names_col(key), keys)

\* Two index arrays broadcast against each other.
Compatible(n, m) == n = m \/ n = 1 \/ m = 1

\* AnnData.__getitem__ for an index that is no string
GetItem(c, rs, cs) ==
    LET o == objs[c]
        smp == unpack_index(rs)
        var == unpack_index(cs)
        shape == Shape(o.X)
        R == Positions(smp, shape[1])
        C == Positions(var, shape[2])
        pointwise == smp.k = "list" /\ var.k = "list"
        copies == smp.k = "list" \/ var.k = "list"
        X == IF copies THEN Whole(Len(bufs) + 1, Len(R), Len(C))
             ELSE SubView(o.X, R, C)
        smp_meta == TakeRows(tabs[o.smp], Positions(smp, TLen(tabs[o.smp])))
        var_meta == TakeRows(tabs[o.var], Positions(var, TLen(tabs[o.var])))
        self == Len(objs) + 1
        r == init(self, Shape(X), TableSource(smp_meta), TableSource(var_meta))
        h == Heaps(objs, tabs, metad, visd, X, r,
                   VisArg(o.vis, visd[o.vis]), MetaArg(o.meta, metad[o.meta]))
        arg == [smp |-> rs, var |-> cs]
        e == IF ~SelOK(smp, shape[1]) \/ ~SelOK(var, shape[2]) THEN "IndexError"
             ELSE IF pointwise /\ ~Compatible(Len(R), Len(C)) THEN "IndexError"
             ELSE IF ~SelOK(smp, TLen(tabs[o.smp])) THEN "IndexError"
             ELSE IF ~SelOK(var, TLen(tabs[o.var])) THEN "IndexError"
             ELSE IF pointwise
             THEN (IF TLen(smp_meta) # (IF Len(R) > Len(C) THEN Len(R) ELSE Len(C))
                   THEN "AssertionError" ELSE "IndexError")
             ELSE IF TLen(smp_meta) # Len(R) \/ TLen(var_meta) # Len(C)
             THEN "AssertionError"
             ELSE IF ~r.ok THEN r.err
             ELSE ""
    IN /\ steps < MaxSteps
       /\ steps' = steps + 1
       /\ UNCHANGED appended
       /\ IF e = ""
          THEN /\ objs' = h.objs
               /\ tabs' = h.tabs
               /\ metad' = h.metad
               /\ visd' = h.visd
               /\ bufs' = IF copies
                          THEN Append(bufs, Cells(bufs, SubView(o.X, R, C)))
                          ELSE bufs
               /\ origin' = Append(origin, [op |-> "getitem", from |-> c])
               /\ last' = Done("getitem", c, self, arg)
          ELSE /\ last' = Failed("getitem", e, c, arg)
               /\ UNCHANGED <<objs, tabs, metad, visd, bufs, origin>>

\* dict[key] = val
Put(d, key, val) == {p \in d : p[1] # key} \cup {<<key, val>>}

\* AnnData.__setitem__ for a string index
SetMeta(c, key, val) ==
    /\ steps < MaxSteps
    /\ steps' = steps + 1
    /\ metad' = [metad EXCEPT ![objs[c].meta] = Put(@, key, val)]
    /\ last' = Done("setmeta", c, 0, [key |-> key, val |-> val])
    /\ UNCHANGED <<objs, tabs, bufs, visd, appended, origin>>

\* The cells of the buffer that X[rows, cols] addresses.
Region(X, smp, var) ==
    LET R == Positions(smp, Shape(X)[1])
        C == Positions(var, Shape(X)[2])
        Base(i, j) == IF X.tr THEN <<X.rix[j], X.cix[i]>> ELSE <<X.rix[i], X.cix[j]>>
    IN IF smp.k = "list" /\ var.k = "list"
       THEN {Base(R[IF Len(R) = 1 THEN 1 ELSE k], C[IF Len(C) = 1 THEN 1 ELSE k]) :
                k \in 1..(IF Len(R) > Len(C) THEN Len(R) ELSE Len(C))}
       ELSE {Base(R[a], C[b]) : a \in 1..Len(R), b \in 1..Len(C)}

\* AnnData.__setitem__ for an index that is no string, and a scalar val
SetCells(c, rs, cs, val) ==
    LET X == objs[c].X
        smp == unpack_index(rs)
        var == unpack_index(cs)
        arg == [smp |-> rs, var |-> cs]
        bad == \/ ~SelOK(smp, Shape(X)[1])
               \/ ~SelOK(var, Shape(X)[2])
               \/ /\ smp.k = "list"
                  /\ var.k = "list"
                  /\ ~Compatible(Len(smp.l), Len(var.l))
    IN /\ steps < MaxSteps
       /\ steps' = steps + 1
       /\ UNCHANGED <<objs, tabs, metad, visd, appended, origin>>
       /\ IF ~bad
          THEN /\ bufs' = [bufs EXCEPT ![X.buf] =
                             [i \in 1..Len(@) |-> [j \in 1..Len(@[i]) |->
                                IF <<i, j>> \in Region(X, smp, var) THEN val
                                ELSE @[i][j]]]]
               /\ last' = Done("setcells", c, 0, arg)
          ELSE /\ last' = Failed("setcells", "IndexError", c, arg)
               /\ UNCHANGED bufs

\* AnnData.__delitem__: the del of the cells of an ndarray is a ValueError
\* (cannot delete array elements), and a record array has no iloc.
DelItem(c, rs, cs) ==
    /\ steps < MaxSteps
    /\ steps' = steps + 1
    /\ last' = Failed("delitem", "ValueError", c, [smp |-> rs, var |-> cs])
    /\ UNCHANGED <<objs, tabs, bufs, metad, visd, appended, origin>>

Renamed(names, from, to) ==
    [i \in 1..Len(names) |-> IF names[i] = from THEN to ELSE names[i]]

NoDup(names) == \A i, j \in 1..Len(names) : names[i] = names[j] => i = j

\* AnnData.transpose.  np.rec.array(table) is table.copy(), which shares the
\* dtype object of the table, so that the assignment to dtype.names renames
\* the column of the table of self as well.
Transpose(c) ==
    LET o == objs[c]
        n1 == Renamed(tabs[o.var].names, VAR_NAMES, SMP_NAMES)
        t1 == IF NoDup(n1) THEN [tabs EXCEPT ![o.var].names = n1] ELSE tabs
        n2 == Renamed(t1[o.smp].names, SMP_NAMES, VAR_NAMES)
        t2 == IF NoDup(n1) /\ NoDup(n2) THEN [t1 EXCEPT ![o.smp].names = n2] ELSE t1
        self == Len(objs) + 1
        X == Transposed(o.X)
        r == init(self, Shape(X), TableSource(t2[o.var]), TableSource(t2[o.smp]))
        h == Heaps(objs, t2, metad, visd, X, r,
                   VisArg(o.vis, visd[o.vis]), MetaArg(o.meta, metad[o.meta]))
    IN /\ steps < MaxSteps
       /\ steps' = steps + 1
       /\ UNCHANGED <<bufs, appended>>
       /\ IF NoDup(n1) /\ NoDup(n2) /\ r.ok
          THEN /\ objs' = h.objs
               /\ tabs' = h.tabs
               /\ metad' = h.metad
               /\ visd' = h.visd
               /\ origin' = Append(origin, [op |-> "transpose", from |-> c])
               /\ last' = Done("transpose", c, self, <<>>)
          ELSE /\ tabs' = t2
               /\ last' = Failed("transpose",
                                 IF NoDup(n1) /\ NoDup(n2) THEN r.err ELSE "ValueError",
                                 c, <<>>)
               /\ UNCHANGED <<objs, metad, visd, origin>>

\* AnnData.smp_keys, AnnData.var_keys
axis_keys(t) == Tail(t.names)

\* The smp and the var of to_dict: the columns of the keys, as pairs.
Annotation(t, nc) ==
    {<<t.names[i], t.cols[i]>> : i \in {j \in 2..Len(t.names) : t.names[j] # nc}}

\* AnnData.to_dict
ToDict(c) ==
    LET o == objs[c]
        smp == tabs[o.smp]
        var == tabs[o.var]
    IN /\ steps < MaxSteps
       /\ steps' = steps + 1
       /\ UNCHANGED <<objs, tabs, bufs, metad, visd, appended, origin>>
       /\ IF HasCol(smp, SMP_NAMES) /\ HasCol(var, VAR_NAMES)
          THEN last' = Done("to_dict", c, 0,
                            [X |-> Cells(bufs, o.X),
                             smp |-> Annotation(smp, SMP_NAMES),
                             var |-> Annotation(var, VAR_NAMES),
                             smp_names |-> Col(smp, SMP_NAMES),
                             var_names |-> Col(var, VAR_NAMES),
                             meta |-> metad[o.meta]])
          ELSE last' = Failed("to_dict", "ValueError", c, <<>>)

Next ==
    \/ \E smp \in {NoSource, MapSource(<<"a">>, <<IntArr(<<5, 6, 7>>)>>)} :
          Construct(smp, NoSource, [vis |-> {}, meta |-> {}])
    \/ \E c \in 1..Len(objs), key \in {"smp", "var"} :
          \E value \in AxisInputs(names_col(key), Shape(objs[c].X)[dim(key)]) :
             SetAxis(c, key, value)
    \/ \E c \in 1..Len(objs), key \in {"smp", "var"}, t \in 1..Len(tabs) :
          SetAxisBound(c, key, t)
    \/ \E h \in 1..Len(tabs), key \in Keys :
          \E value \in ColumnInputs(TLen(tabs[h])) : TableSetItem(h, key, value)
    \/ \E c \in 1..Len(objs), key \in {"smp", "var"} :
          \E keys \in NamesInputs(Shape(objs[c].X)[dim(key)]) :
             SetNames(c, key, keys)
    \/ \E c \in 1..Len(objs), rs \in SelInputs, cs \in SelInputs : GetItem(c, rs, cs)
    \/ \E c \in 1..Len(objs), key \in MetaKeys, val \in MetaValues :
          SetMeta(c, key, val)
    \/ \E c \in 1..Len(objs), ix \in CellInputs : SetCells(c, ix[1], ix[2], 0)
    \/ \E c \in 1..Len(objs), ix \in DelInputs : DelItem(c, ix[1], ix[2])
    \/ \E c \in 1..Len(objs) : Transpose(c)
    \/ \E c \in 1..Len(objs) : ToDict(c)

Spec == Init /\ [][Next]_vars

----------------------------------------------------------------------------
(* The claims *)

Objects == 1..Len(objs)

\* The tables of object c are as long as the axes of its matrix.
ShapeOK(c) ==
    /\ TLen(tabs[objs[c].smp]) = Shape(objs[c].X)[1]
    /\ TLen(tabs[objs[c].var]) = Shape(objs[c].X)[2]

\* len() of the table that a source is converted to, for an axis of length n.
SourceLen(source, n) == IF source.kind = "none" THEN n ELSE Len(source.cols[1].v)

\* C1: every object that exists has a row table as long as the matrix has
\* rows and a column table as long as the matrix has columns, whatever
\* operations succeeded on it; and a construction from an annotation of
\* another length than the axis fails with a ValueError.
C1_ShapeInvariant ==
    /\ \A c \in Objects : ShapeOK(c)
    /\ (/\ last.op = "init"
        /\ \/ SourceLen(last.arg.smp, 2) # 2
           \/ SourceLen(last.arg.var, 3) # 3)
       => (~last.ok /\ last.err = "ValueError")

\* An integer, or the positions of a list, address existing rows of an axis
\* of length n, counted from 0.
Addresses(sel, n) ==
    /\ sel.k = "int" => (sel.a >= 0 /\ sel.a < n)
    /\ sel.k = "list" => \A i \in 1..Len(sel.l) : sel.l[i] >= 0 /\ sel.l[i] < n

\* The positions that a component selects: an integer selects its one row.
Selected(sel, n) == IF sel.k = "int" THEN <<sel.a + 1>> ELSE Positions(sel, n)

\* C2: obj[r, c] succeeds for every pair of components (integer, slice, list
\* or all) and returns a new object whose matrix is the sub-matrix of the
\* selected rows and columns, whose tables are the tables restricted to the
\* selected rows (the same columns, in order), as long as the axes.
C2_IndexingRead ==
    (/\ last.op = "getitem"
     /\ ShapeOK(last.c)
     /\ Addresses(last.arg.smp, Shape(objs[last.c].X)[1])
     /\ Addresses(last.arg.var, Shape(objs[last.c].X)[2]))
    => /\ last.ok
       /\ LET s == objs[last.c]
              d == objs[last.res]
              R == Selected(last.arg.smp, Shape(s.X)[1])
              C == Selected(last.arg.var, Shape(s.X)[2])
          IN /\ last.res # last.c
             /\ Cells(bufs, d.X) =
                   [i \in 1..Len(R) |-> [j \in 1..Len(C) |->
                       Cells(bufs, s.X)[R[i]][C[j]]]]
             /\ tabs[d.smp] = [TakeRows(tabs[s.smp], R) EXCEPT !.parent = last.res]
             /\ tabs[d.var] = [TakeRows(tabs[s.var], C) EXCEPT !.parent = last.res]
             /\ ShapeOK(last.res)

\* C3: table[key] = value, for the table of an object on an axis and a
\* key that is no column of it, appends the column when len(value) <=
\* len(table): the table of the object on that axis then has its previous
\* columns, unchanged, and the new one, and its previous length; when
\* len(value) > len(table) it is a ValueError and the table of the object is
\* as before.
C3_Append ==
    [][(/\ last'.op = "setitem"
        /\ ~HasCol(tabs[last'.arg.t], last'.arg.key)
        /\ Table(objs[tabs[last'.arg.t].parent], Attr(tabs[last'.arg.t].name_col))
              = last'.arg.t)
       => LET self == tabs[last'.arg.t]
              key == Attr(self.name_col)
              after == tabs'[Table(objs'[self.parent], key)]
          IN IF Len(last'.arg.value.v) <= TLen(self)
             THEN /\ last'.ok
                  /\ after.names = Append(self.names, last'.arg.key)
                  /\ SubSeq(after.cols, 1, Len(self.cols)) = self.cols
                  /\ TLen(after) = TLen(self)
             ELSE /\ ~last'.ok
                  /\ last'.err = "ValueError"
                  /\ Table(objs'[self.parent], key) = last'.arg.t
                  /\ after = self]_vars

\* C4: obj.smp = value and obj.var = value, for a dict, a plain record array
\* or a BoundRecArr, check the length of the value against the axis of the
\* matrix: a value of another length is a ValueError, and the object, its
\* tables and its matrix are as before.
C4_AxisAssignmentChecked ==
    [][(/\ last'.op = "setattr"
        /\ SourceLen(last'.arg.value, 0)
              # Shape(objs[last'.c].X)[dim(last'.arg.key)])
       => /\ ~last'.ok
          /\ last'.err = "ValueError"
          /\ objs' = objs
          /\ tabs'[objs[last'.c].smp] = tabs[objs[last'.c].smp]
          /\ tabs'[objs[last'.c].var] = tabs[objs[last'.c].var]
          /\ bufs' = bufs]_vars

\* C5: obj.smp = dict (or obj.var = dict) of the right length, without the
\* label key or with labels equal to 0, 1, ..., gives a table that has the
\* columns of the dict and the labels the object had on that axis before;
\* with other labels, it gives a table that has the labels of the dict.
\* (Stated for the dicts whose labels, if any, are integers.)
C5_LabelPreservation ==
    [][(/\ last'.op = "setattr"
        /\ last'.arg.t = 0
        /\ last'.arg.value.kind = "map"
        /\ \A i \in 1..Len(last'.arg.value.names) :
              last'.arg.value.names[i] = names_col(last'.arg.key)
                 => last'.arg.value.cols[i].dt = "i"
        /\ HasCol(tabs[Table(objs[last'.c], last'.arg.key)], names_col(last'.arg.key))
        /\ SourceLen(last'.arg.value, 0)
              = Shape(objs[last'.c].X)[dim(last'.arg.key)])
       => LET key == last'.arg.key
              nc == names_col(key)
              value == last'.arg.value
              before == tabs[Table(objs[last'.c], key)]
              after == tabs'[Table(objs'[last'.c], key)]
              given(k) == value.cols[IndexOf(k, value.names)]
          IN /\ last'.ok
             /\ \A i \in 1..Len(value.names) :
                   value.names[i] # nc =>
                      /\ HasCol(after, value.names[i])
                      /\ Col(after, value.names[i]) = value.cols[i]
             /\ HasCol(after, nc)
             /\ IF ~InSeq(nc, value.names) \/ given(nc).v = arange(TLen(before)).v
                THEN Col(after, nc) = Col(before, nc)
                ELSE Col(after, nc) = given(nc)]_vars

\* The labels of a table: its column of the name name_col.
Labels(t) == Col(t, t.name_col)

\* C6: transpose gives a new object whose matrix has the shape (columns,
\* rows), whose row table is the column table with the label column renamed
\* and whose column table is the row table with the label column renamed,
\* and leaves the object as it was; the transpose of a transpose of x has
\* the shape and the row and column labels of x.
C6_Transpose ==
    [][(last'.op = "transpose" /\ ShapeOK(last'.c))
       => /\ last'.ok
          /\ LET x == objs[last'.c]
                 d == objs'[last'.res]
             IN /\ Shape(d.X) = <<Shape(x.X)[2], Shape(x.X)[1]>>
                /\ tabs'[d.smp].names = Renamed(tabs[x.var].names, VAR_NAMES, SMP_NAMES)
                /\ tabs'[d.smp].cols = tabs[x.var].cols
                /\ tabs'[d.var].names = Renamed(tabs[x.smp].names, SMP_NAMES, VAR_NAMES)
                /\ tabs'[d.var].cols = tabs[x.smp].cols
                /\ objs'[last'.c] = x
                /\ tabs'[x.smp] = tabs[x.smp]
                /\ tabs'[x.var] = tabs[x.var]
                /\ Cells(bufs', x.X) = Cells(bufs, x.X)
                /\ origin[last'.c].op = "transpose" =>
                      LET xx == objs[origin[last'.c].from]
                      IN /\ Shape(d.X) = Shape(xx.X)
                         /\ HasCol(tabs[xx.smp], SMP_NAMES)
                         /\ HasCol(tabs[xx.var], VAR_NAMES)
                         /\ Labels(tabs'[d.smp]) = Col(tabs[xx.smp], SMP_NAMES)
                         /\ Labels(tabs'[d.var]) = Col(tabs[xx.var], VAR_NAMES)]_vars

\* Every column of a table but its label column, as pairs.
AllButLabels(t, nc) ==
    {<<t.names[i], t.cols[i]>> : i \in {j \in 1..Len(t.names) : t.names[j] # nc}}

\* C7: to_dict returns, for smp and for var, every column of the table but
\* the label column, wherever the label column is in the table, and the
\* matrix, the labels of both axes and the dataset metadata.
C7_ToDict ==
    (last.op = "to_dict" /\ HasCol(tabs[objs[last.c].smp], SMP_NAMES)
                         /\ HasCol(tabs[objs[last.c].var], VAR_NAMES))
    => /\ last.ok
       /\ LET o == objs[last.c]
          IN /\ last.arg.smp = AllButLabels(tabs[o.smp], SMP_NAMES)
             /\ last.arg.var = AllButLabels(tabs[o.var], VAR_NAMES)
             /\ last.arg.X = Cells(bufs, o.X)
             /\ last.arg.smp_names = Col(tabs[o.smp], SMP_NAMES)
             /\ last.arg.var_names = Col(tabs[o.var], VAR_NAMES)
             /\ last.arg.meta = metad[o.meta]

\* The objects that an indexing read or a transpose returned.
Derived == {d \in Objects : origin[d].op \in {"getitem", "transpose"}}

\* C8, as stated: the object that obj[r, c] or obj.transpose() returns has
\* the vis dict and the _meta dict of obj (the same objects, empty or not),
\* so that an entry written to _meta through one is read through the other.
C8_SharedByReference ==
    /\ \A d \in Derived :
          /\ objs[d].vis = objs[origin[d].from].vis
          /\ objs[d].meta = objs[origin[d].from].meta
    /\ \A d \in Derived :
          (last.op = "setmeta" /\ last.c \in {d, origin[d].from})
          => /\ <<last.arg.key, last.arg.val>> \in metad[objs[d].meta]
             /\ <<last.arg.key, last.arg.val>> \in metad[objs[origin[d].from].meta]

\* C8, amended: the object that obj[r, c] or obj.transpose() returns has a
\* new _meta dict with the entries of obj._meta, and the vis dict of obj
\* only if that dict is not empty (else a new empty dict); an entry written
\* to the _meta of an object changes the _meta of no other object.
C8_CopiedMeta ==
    [][/\ (last'.op \in {"getitem", "transpose"} /\ last'.ok)
          => LET s == objs[last'.c]
                 d == objs'[last'.res]
             IN /\ \A c \in Objects : objs[c].meta # d.meta
                /\ metad'[d.meta] = metad[s.meta]
                /\ visd[s.vis] # {} => d.vis = s.vis
                /\ visd[s.vis] = {} =>
                      /\ \A c \in Objects : objs[c].vis # d.vis
                      /\ visd'[d.vis] = {}
       /\ last'.op = "setmeta"
          => /\ <<last'.arg.key, last'.arg.val>> \in metad'[objs[last'.c].meta]
             /\ \A d \in Objects \ {last'.c} :
                   metad'[objs[d].meta] = metad[objs[d].meta]]_vars

\* An entry was written to the _meta of a derived object whose source has
\* another value for the key, and the two share a vis dict that is not empty.
C8_Witness ==
    /\ last.op = "setmeta"
    /\ last.c \in Derived
    /\ LET s == objs[origin[last.c].from]
       IN /\ metad[s.meta] # {}
          /\ metad[objs[last.c].meta] # metad[s.meta]
          /\ visd[s.vis] # {}
          /\ objs[last.c].vis = s.vis

\* The positions of an axis of length n that a component does not address.
Kept(sel, n) ==
    SelectSeq([i \in 1..n |-> i],
              LAMBDA i : \A k \in 1..Len(Selected(sel, n)) : Selected(sel, n)[k] # i)

\* C9: del obj[r, :] succeeds and removes the rows from the matrix and from
\* the row table, the column table as before; del obj[:, c] succeeds and
\* removes the columns from the matrix and from the column table; the tables
\* are then as long as the axes.
C9_Deletion ==
    [][(last'.op = "delitem" /\ (last'.arg.var = AllSel \/ last'.arg.smp = AllSel))
       => /\ last'.ok
          /\ LET o == objs[last'.c]
                 n == objs'[last'.c]
                 R == Kept(last'.arg.smp, Shape(o.X)[1])
                 C == Kept(last'.arg.var, Shape(o.X)[2])
             IN /\ Cells(bufs', n.X) =
                      [i \in 1..Len(R) |-> [j \in 1..Len(C) |->
                          Cells(bufs, o.X)[R[i]][C[j]]]]
                /\ tabs'[n.smp] = TakeRows(tabs[o.smp], R)
                /\ tabs'[n.var] = TakeRows(tabs[o.var], C)
                /\ TLen(tabs'[n.smp]) = Shape(n.X)[1]
                /\ TLen(tabs'[n.var]) = Shape(n.X)[2]]_vars

\* C10: the table of an object on an axis has every column that was
\* appended on that axis, through whichever table read from the object,
\* with the values that were written.
C10_NoAppendLost ==
    \A e \in appended :
        /\ HasCol(tabs[Table(objs[e.c], e.axis)], e.key)
        /\ Col(tabs[Table(objs[e.c], e.axis)], e.key) = e.col

====
